---- MODULE Spec2Model ----
(***************************************************************************)
(* A model of adonis-persona (src/src/Persona.js): the account lifecycle   *)
(* service that registers accounts, verifies credentials, issues and       *)
(* redeems email / password tokens and mediates profile updates.           *)
(*                                                                         *)
(* The store (users and tokens tables), the validator, the hashing         *)
(* facility and the event bus are collaborators: they are modelled by what *)
(* Persona.js asks of them.  A call of the public API is one action: the   *)
(* calls are awaited in strict sequence, so a non-overlapping call is      *)
(* atomic, with one exception: verifyEmail starts removeToken without      *)
(* awaiting it, so that deletion is a query in flight of its own.          *)
(***************************************************************************)
EXTENDS Integers, Sequences, FiniteSets, TLC

(***************************************************************************)
(* Bounds of the model.                                                    *)
(***************************************************************************)
MaxCalls == 3
MaxUsers == 2
MaxTime == 25
NumCallers == 2
MaxTokens == 2
MaxUids == 3

(***************************************************************************)
(* Configuration: Config.merge('persona', {...}) in the constructor, with  *)
(* the two uids of the test suite.                                         *)
(***************************************************************************)
config ==
  [ uids |-> <<"username", "email">>,
    email |-> "email",
    password |-> "password",
    table |-> "users",
    newAccountState |-> "pending",
    verifiedAccountState |-> "active" ]

oldPasswordField == "old_" \o config.password
passwordConfirmationField == config.password \o "_confirmation"

\* moment().subtract(24, 'hours'): the liveness window of a token, in hours
TokenTTL == 24

(***************************************************************************)
(* Values.  U is JavaScript's undefined (a key the payload does not have); *)
(* "" is a present but empty (falsy) value, and a NULL column of a row.    *)
(***************************************************************************)
U == "<undefined>"

Truthy(v) == v # U /\ v # ""

AccountFields == {"email", "username", "password", "account_status", "firstname"}

PayloadFields ==
  AccountFields \cup {"uid", passwordConfirmationField, oldPasswordField}

EmptyPayload == [f \in PayloadFields |-> U]

\* a payload literal: the keys of kv, every other key undefined
Payload(kv) == [f \in PayloadFields |-> IF f \in DOMAIN kv THEN kv[f] ELSE U]

NoAttrs == [f \in AccountFields |-> ""]
NoUser == [id |-> 0, attrs |-> NoAttrs]

(***************************************************************************)
(* Collaborator: the validation engine (Validator.validateAll) with the    *)
(* rules Persona hands to it.  Every rule of every field runs; `email`,    *)
(* `unique` and `confirmed` skip a value that is not there.                *)
(***************************************************************************)
IsEmail(v) == v \in {"a@x.io", "b@x.io"}

Rule(field, name, except) == [field |-> field, rule |-> name, except |-> except]

RuleFails(r, payload, rows) ==
  LET v == payload[r.field] IN
  CASE r.rule = "required"  -> ~Truthy(v)
    [] r.rule = "email"     -> Truthy(v) /\ ~IsEmail(v)
    [] r.rule = "unique"    -> Truthy(v) /\ \E i \in 1..Len(rows) :
                                  rows[i][r.field] = v /\ i # r.except
    [] r.rule = "confirmed" -> Truthy(v) /\ payload[r.field \o "_confirmation"] # v
    [] OTHER                -> FALSE

ValidationError(r) == [field |-> r.field, validation |-> r.rule]

RECURSIVE validateAll(_, _, _)
validateAll(payload, rules, rows) ==
  IF rules = <<>> THEN <<>>
  ELSE (IF RuleFails(Head(rules), payload, rows)
          THEN <<ValidationError(Head(rules))>> ELSE <<>>)
       \o validateAll(payload, Tail(rules), rows)

(***************************************************************************)
(* Rule builders.  A rule object is the sequence of its rules in the       *)
(* insertion order of its keys.                                            *)
(***************************************************************************)
\* variant: no uniqueness rule
UidRulesNoUnique(uid) ==
  <<Rule(uid, "required", 0)>>
  \o (IF uid = config.email THEN <<Rule(uid, "email", 0)>> ELSE <<>>)

UidRules(uid) ==
  <<Rule(uid, "required", 0)>>
  \o (IF uid = config.email THEN <<Rule(uid, "email", 0)>> ELSE <<>>)
  \o <<Rule(uid, "unique", 0)>>

RECURSIVE UidsRules(_)
UidsRules(uids) ==
  IF uids = <<>> THEN <<>> ELSE UidRules(Head(uids)) \o UidsRules(Tail(uids))

\* variant: the uid entries come before the password entry
registrationRulesUidsFirst ==
  UidsRules(config.uids)
  \o <<Rule(config.password, "required", 0), Rule(config.password, "confirmed", 0)>>

registrationRules ==
  <<Rule(config.password, "required", 0), Rule(config.password, "confirmed", 0)>>
  \o UidsRules(config.uids)

\* variant: the account's own row is not excepted
updateEmailRulesNoExcept(userId) ==
  <<Rule(config.email, "required", 0), Rule(config.email, "email", 0),
    Rule(config.email, "unique", 0)>>

updateEmailRules(userId) ==
  <<Rule(config.email, "required", 0), Rule(config.email, "email", 0),
    Rule(config.email, "unique", userId)>>

\* variant: nothing is required of the payload
updatePasswordRulesNone(enforceOldPassword) == <<>>

updatePasswordRules(enforceOldPassword) ==
  <<Rule(config.password, "required", 0), Rule(config.password, "confirmed", 0)>>
  \o (IF enforceOldPassword THEN <<Rule(oldPasswordField, "required", 0)>> ELSE <<>>)

loginRules ==
  <<Rule("uid", "required", 0), Rule(config.password, "required", 0)>>

(***************************************************************************)
(* State.                                                                  *)
(*   users    the users table: row i is the account with primary key i     *)
(*   tokens   the tokens table, a set of rows                              *)
(*   minted   how many token values randtoken has produced so far          *)
(*   now      the clock, in hours                                          *)
(*   pending  the removeToken deletions started and not yet executed       *)
(*   pc       the caller: "idle" between calls, "done" when a call has     *)
(*            just returned or raised and `last` describes it              *)
(*   calls    the number of calls made                                     *)
(*   last     the call that has just ended: its arguments, its outcome,    *)
(*            the events it published, the calls it made to its            *)
(*            collaborators in their order (log), the one of them that     *)
(*            failed, if any, the in-memory account it worked on and the   *)
(*            tables as they were when it started                          *)
(*   inflight the calls that overlap in time, each with its position in    *)
(*            the method and what it has read so far; no call is in flight *)
(*            while the calls are made one after the other                 *)
(***************************************************************************)
VARIABLES users, tokens, minted, now, pending, pc, calls, last, inflight

vars == <<users, tokens, minted, now, pending, pc, calls, last, inflight>>

store == <<users, tokens, minted, pending>>

NoCall ==
  [ op |-> "none", payload |-> EmptyPayload, uid |-> 0, token |-> 0,
    value |-> U, callback |-> "none", type |-> "", result |-> 0,
    outcome |-> "none", message |-> "", errors |-> <<>>, fired |-> <<>>,
    log |-> <<>>, failed |-> "", user |-> NoUser, usersBefore |-> <<>>, tokensBefore |-> {},
    pendingBefore |-> {} ]

Init ==
  /\ users = <<>>
  /\ tokens = {}
  /\ minted = 0
  /\ now = 0
  /\ pending = {}
  /\ pc = "idle"
  /\ calls = 0
  /\ last = NoCall
  /\ inflight = <<>>

(***************************************************************************)
(* Collaborator: the hashing facility.  Hash.make is injective and         *)
(* Hash.verify(plain, hashed) accepts exactly the hash of plain.           *)
(***************************************************************************)
HashMake(plain) == "#" \o plain

HashVerify(plain, hashed) == hashed = HashMake(plain)

(***************************************************************************)
(* Collaborator: the User model.  Its beforeSave hook hashes a password    *)
(* that is dirty and truthy; create and save then write the row.           *)
(***************************************************************************)
beforeSave(attrs, original) ==
  IF attrs.password # original.password /\ Truthy(attrs.password)
    THEN [attrs EXCEPT !.password = HashMake(attrs.password)]
    ELSE attrs

\* Model.create(payload): the columns the payload carries, the others NULL
create(payload) ==
  beforeSave([f \in AccountFields |-> IF payload[f] # U THEN payload[f] ELSE ""],
             NoAttrs)

\* user.save() of an instance loaded from row id
save(rows, id, attrs) == [rows EXCEPT ![id] = beforeSave(attrs, rows[id])]

\* user.merge(payload)
merge(attrs, payload) ==
  [f \in AccountFields |-> IF payload[f] # U THEN payload[f] ELSE attrs[f]]

getEmail(obj) == obj[config.email]

getPassword(obj) == obj[config.password]

\* variant: the email is not written
setEmailNoop(obj, email) == obj

setEmail(obj, email) == [obj EXCEPT ![config.email] = email]

\* variant: the password is not written
setPasswordNoop(obj, password) == obj

\* variant: setting the password also marks the account verified
setPasswordVerifying(obj, password) ==
  [obj EXCEPT ![config.password] = password,
              !.account_status = config.verifiedAccountState]

setPassword(obj, password) == [obj EXCEPT ![config.password] = password]

(***************************************************************************)
(* Tokens.                                                                 *)
(***************************************************************************)
TokenRow(value, type, userId, t) ==
  [ token |-> value, type |-> type, user_id |-> userId,
    is_revoked |-> FALSE, updated_at |-> t ]

\* variant: the window is added to the clock instead of subtracted
addTokenConstraintsWrongSign(rows, type, t) ==
  { r \in rows : r.type = type /\ ~r.is_revoked /\ r.updated_at >= t + TokenTTL }

\* variant: the 24 hour window is not applied
addTokenConstraintsNoExpiry(rows, type, t) ==
  { r \in rows : r.type = type /\ ~r.is_revoked }

\* .where('type', type).where('is_revoked', false).where('updated_at', '>=', now - 24h)
addTokenConstraints(rows, type, t) ==
  { r \in rows : r.type = type /\ ~r.is_revoked /\ r.updated_at >= t - TokenTTL }

\* variant: a new token is created without looking for a live one
generateTokenAlwaysMints(rows, n, userId, type, t) ==
  { [ token |-> n + 1,
      tokens |-> rows \cup {TokenRow(n + 1, type, userId, t)},
      minted |-> n + 1 ] }

\* variant: the new token is returned and never stored
generateTokenNoInsert(rows, n, userId, type, t) ==
  LET live == addTokenConstraints({ r \in rows : r.user_id = userId }, type, t) IN
  IF live # {}
    THEN { [token |-> r.token, tokens |-> rows, minted |-> n] : r \in live }
    ELSE { [token |-> n + 1, tokens |-> rows, minted |-> n + 1] }

\* The outcomes of generateToken(user, type): the token returned, the table
\* and the count of minted values afterwards.  query.first() returns one of
\* the live rows; a new value is one randtoken has not produced before.
\* variant: the reuse path refreshes the timestamp of the row it returns
generateTokenRefreshing(rows, n, userId, type, t) ==
  LET live == addTokenConstraints({ r \in rows : r.user_id = userId }, type, t) IN
  IF live # {}
    THEN { [ token |-> r.token,
             tokens |-> (rows \ {r}) \cup {[r EXCEPT !.updated_at = t]},
             minted |-> n ] : r \in live }
    ELSE { [ token |-> n + 1,
             tokens |-> rows \cup {TokenRow(n + 1, type, userId, t)},
             minted |-> n + 1 ] }

generateToken(rows, n, userId, type, t) ==
  LET live == addTokenConstraints({ r \in rows : r.user_id = userId }, type, t) IN
  IF live # {}
    THEN { [token |-> r.token, tokens |-> rows, minted |-> n] : r \in live }
    ELSE { [ token |-> n + 1,
             tokens |-> rows \cup {TokenRow(n + 1, type, userId, t)},
             minted |-> n + 1 ] }

\* variant: the owning account is not looked at
getTokenAnyOwner(rows, accounts, value, type, t) ==
  { r \in addTokenConstraints(rows, type, t) : r.token = value }

\* The rows getToken(token, type) may return; none when the set is empty.
getToken(rows, accounts, value, type, t) ==
  { r \in addTokenConstraints(rows, type, t) :
      r.token = value /\ r.user_id \in 1..Len(accounts) }

\* variant: the type is not part of the condition
removeTokenAnyType(rows, value, type) == { r \in rows : r.token # value }

\* variant: nothing is deleted
removeTokenNoop(rows, value, type) == rows

\* query.where('token', token).where('type', type).delete()
removeToken(rows, value, type) ==
  { r \in rows : ~(r.token = value /\ r.type = type) }

\* The accounts getUserByUids(value) may return: orWhere over every uid.
getUserByUids(rows, value) ==
  { i \in 1..Len(rows) :
      \E k \in 1..Len(config.uids) : rows[i][config.uids[k]] = value }

\* variant: the entered password is compared with the stored one as it is
verifyPasswordPlain(newPassword, oldPassword, field) ==
  IF newPassword = oldPassword
    THEN <<>>
    ELSE <<[field |-> field, validation |-> "mis_match"]>>

\* Hash.verify(newPassword, oldPassword) and the error verifyPassword raises
verifyPassword(newPassword, oldPassword, field) ==
  IF HashVerify(newPassword, oldPassword)
    THEN <<>>
    ELSE <<[field |-> field, validation |-> "mis_match"]>>

\* variant: the payload's own account_status is kept
massageRegistrationDataKeepsStatus(payload) ==
  [payload EXCEPT ![passwordConfirmationField] = U]

\* variant: the confirmation field is left in the payload
massageRegistrationDataKeepsConfirmation(payload) ==
  [payload EXCEPT !.account_status = config.newAccountState]

massageRegistrationData(payload) ==
  [payload EXCEPT ![passwordConfirmationField] = U,
                  !.account_status = config.newAccountState]

(***************************************************************************)
(* The shape of a call.                                                    *)
(***************************************************************************)
Begin ==
  /\ pc = "idle"
  /\ calls < MaxCalls
  /\ calls' = calls + 1
  /\ pc' = "done"
  /\ UNCHANGED <<now, inflight>>

\* the record of the call that ends with this step
Ends(call) ==
  last' = call @@ [usersBefore |-> users, tokensBefore |-> tokens,
                   pendingBefore |-> pending] @@ NoCall

\* the call raises before it has written anything
Raises(call, name, message, errors) ==
  /\ Ends([outcome |-> name, message |-> message, errors |-> errors] @@ call)
  /\ UNCHANGED store

ValidationFailed(call, errors) ==
  Raises(call, "ValidationException", "Validation failed", errors)

InvalidToken(call) ==
  Raises(call, "InvalidTokenException", "The token is invalid or expired", <<>>)

\* an awaited call to a collaborator is rejected and the method lets the
\* rejection through
CollaboratorFailed(call, name) ==
  /\ Ends([outcome |-> "CollaboratorError", message |-> name, failed |-> name] @@ call)
  /\ UNCHANGED store

\* variant: the rejection of generateToken is swallowed and the method returns
generateTokenFailedSwallowed(call) ==
  /\ Ends([outcome |-> "returned", failed |-> "generateToken"] @@ call)
  /\ UNCHANGED <<tokens, minted, pending>>

\* the awaited generateToken is rejected after the method has written the
\* account: the rejection goes to the caller, no row is created, and the
\* method does nothing about the write it made
generateTokenFailed(call) ==
  /\ Ends([ outcome |-> "CollaboratorError", message |-> "generateToken",
            failed |-> "generateToken" ] @@ call)
  /\ UNCHANGED <<tokens, minted, pending>>

Event(name, user, oldEmail, token) ==
  [event |-> name, user |-> user, oldEmail |-> oldEmail, token |-> token]

(***************************************************************************)
(* The calls a method makes to its collaborators, in the order in which it *)
(* makes them: the configured validationMessages function with the action  *)
(* it is handed, the validator, the caller's callback with its arguments,  *)
(* the hashing facility, the model's create and save, the event bus.       *)
(***************************************************************************)
Step(name, a, b) == [step |-> name, a |-> a, b |-> b]

\* runValidation(payload, rules, action): getMessages(action), then validateAll
runValidationCalls(action) ==
  <<Step("validationMessages", action, U), Step("validateAll", U, U)>>

\* _makeCustomMessage: getMessages() without an action
makeCustomMessageCalls == <<Step("validationMessages", U, U)>>

verifyPasswordCalls(newPassword, oldPassword, field) ==
  <<Step("Hash.verify", newPassword, oldPassword)>>
  \o (IF verifyPassword(newPassword, oldPassword, field) # <<>>
        THEN makeCustomMessageCalls ELSE <<>>)

getUserByUidsCalls(rows, value) ==
  IF getUserByUids(rows, value) = {} THEN makeCustomMessageCalls ELSE <<>>

Callbacks == {"none", "ok", "throws"}

\* `if (typeof (callback) === 'function') { await callback(a, b) }`
callbackCalls(callback, a, b) ==
  IF callback = "none" THEN <<>> ELSE <<Step("callback", a, b)>>

(***************************************************************************)
(* register(payload, callback)                                             *)
(***************************************************************************)

\* what the caller's callback does to the payload it is handed
prepare(payload, callback) ==
  IF callback = "ok" THEN [payload EXCEPT !.firstname = "virk"] ELSE payload

\* register(payload, callback) when the collaborator call named by fault, if
\* the method comes to make it, fails
registerWith(payload, callback, fault) ==
  LET call == [op |-> "register", payload |-> payload, callback |-> callback]
      errors == validateAll(payload, registrationRules, users)
      massaged == massageRegistrationData(payload)
      attrs == create(prepare(massaged, callback))
      id == Len(users) + 1
      validated == runValidationCalls("register")
      called == validated \o callbackCalls(callback, massaged, U)
      created == called \o <<Step("create", prepare(massaged, callback), U)>>
  IN
  /\ Begin
  /\ IF fault = "validateAll"
       THEN CollaboratorFailed([log |-> validated] @@ call, fault)
     ELSE IF errors # <<>> THEN ValidationFailed([log |-> validated] @@ call, errors)
     ELSE IF callback = "throws"
       THEN Raises([log |-> called] @@ call, "CallbackError", "callback", <<>>)
     ELSE IF fault = "create"
       THEN CollaboratorFailed([log |-> created] @@ call, fault)
     ELSE /\ Len(users) < MaxUsers
          /\ users' = Append(users, attrs)
          /\ IF fault = "generateToken"
               THEN generateTokenFailed([ uid |-> id, log |-> created,
                                          user |-> [id |-> id, attrs |-> attrs] ] @@ call)
             ELSE
             /\ \E g \in generateToken(tokens, minted, id, "email", now) :
                  /\ tokens' = g.tokens
                  /\ minted' = g.minted
                  /\ Ends([ outcome |-> "returned",
                            user |-> [id |-> id, attrs |-> attrs],
                            fired |-> <<Event("user::created",
                                              [id |-> id, attrs |-> attrs], U, g.token)>>,
                            log |-> created \o <<Step("fire", "user::created", U)>>
                          ] @@ call)
             /\ UNCHANGED pending

register(payload, callback) == registerWith(payload, callback, "none")

(***************************************************************************)
(* verify(payload, callback)                                               *)
(***************************************************************************)
\* variant: verify announces the login on the event bus
verifyReturnsPublishing(call, user) ==
  /\ Ends([ outcome |-> "returned", user |-> user,
            fired |-> <<Event("user::verified", user, U, U)>> ] @@ call)
  /\ UNCHANGED store

\* verify's last step: `return user`, with nothing written or published
verifyReturns(call, user) ==
  /\ Ends([outcome |-> "returned", user |-> user] @@ call)
  /\ UNCHANGED store

\* variant: the password is compared before the callback is called
verifyCallsComparingFirst(callback, user, enteredPassword, userPassword) ==
  verifyPasswordCalls(enteredPassword, userPassword, config.password)
  \o callbackCalls(callback, user, enteredPassword)

\* the callback, if there is one, and then verifyPassword, if it returned
verifyCalls(callback, user, enteredPassword, userPassword) ==
  callbackCalls(callback, user, enteredPassword)
  \o (IF callback = "throws" THEN <<>>
        ELSE verifyPasswordCalls(enteredPassword, userPassword, config.password))

verify(payload, callback) ==
  LET call == [op |-> "verify", payload |-> payload, callback |-> callback]
      errors == validateAll(payload, loginRules, users)
      found == getUserByUids(users, payload.uid)
      validated == runValidationCalls("verify")
      resolved == validated \o getUserByUidsCalls(users, payload.uid)
  IN
  /\ Begin
  /\ IF errors # <<>> THEN ValidationFailed([log |-> validated] @@ call, errors)
     ELSE IF found = {}
       THEN ValidationFailed([log |-> resolved] @@ call,
                             <<[field |-> "uid", validation |-> "exists"]>>)
     ELSE \E id \in found :
       LET user == [id |-> id, attrs |-> users[id]]
           enteredPassword == getPassword(payload)
           userPassword == getPassword(users[id])
           mismatch == verifyPassword(enteredPassword, userPassword, config.password)
           done == [ user |-> user,
                     log |-> resolved \o verifyCalls(callback, user, enteredPassword,
                                                     userPassword) ] @@ call
       IN
       IF callback = "throws" THEN Raises(done, "CallbackError", "callback", <<>>)
       ELSE IF mismatch # <<>> THEN ValidationFailed(done, mismatch)
       ELSE verifyReturns(done, user)

(***************************************************************************)
(* verifyEmail(token).  removeToken is called and not awaited: when        *)
(* `await user.save()` resumes, the DELETE has been executed, or is still  *)
(* in flight, or has been rejected with nobody to hear of it.              *)
(***************************************************************************)
\* variant: the account is activated whatever its status
inNewAccountStateAlways(attrs) == TRUE

\* "Update user account only when in the newAccountState"
inNewAccountState(attrs) == attrs.account_status = config.newAccountState

\* verifyEmail(token) when the collaborator call named by fault, if the
\* method comes to make it, fails
verifyEmailWith(token, fault) ==
  LET call == [op |-> "verifyEmail", token |-> token]
      rows == getToken(tokens, users, token, "email", now)
  IN
  /\ Begin
  /\ IF fault = "getToken" THEN CollaboratorFailed(call, fault)
     ELSE IF rows = {} THEN InvalidToken(call)
     ELSE \E row \in rows :
       LET id == row.user_id
           attrs == users[id]
           verified == [attrs EXCEPT !.account_status = config.verifiedAccountState]
       IN
       IF inNewAccountState(attrs)
         THEN \E removal \in (IF fault = "removeToken" THEN {"failed"}
                                ELSE {"executed", "inflight"}) :
              /\ CASE removal = "executed" ->
                        /\ tokens' = removeToken(tokens, token, "email")
                        /\ UNCHANGED pending
                   [] removal = "inflight" ->
                        /\ pending' = pending \cup {[token |-> token, type |-> "email"]}
                        /\ UNCHANGED tokens
                   [] removal = "failed" -> UNCHANGED <<tokens, pending>>
              /\ IF fault = "save"
                   THEN /\ Ends([ outcome |-> "CollaboratorError", message |-> fault,
                                  failed |-> fault, uid |-> id,
                                  log |-> <<Step("save", id, U)>> ] @@ call)
                        /\ UNCHANGED users
                   ELSE /\ users' = save(users, id, verified)
                        /\ Ends([ outcome |-> "returned", uid |-> id,
                                  user |-> [id |-> id, attrs |-> users'[id]],
                                  failed |-> IF removal = "failed" THEN fault ELSE "",
                                  log |-> <<Step("save", id, U)>> ] @@ call)
              /\ UNCHANGED minted
         ELSE /\ Ends([ outcome |-> "returned", uid |-> id,
                        user |-> [id |-> id, attrs |-> attrs] ] @@ call)
              /\ UNCHANGED store

verifyEmail(token) == verifyEmailWith(token, "none")

\* the DELETE that a removeToken call started reaches the table
removeTokenCompletes(p) ==
  /\ pc = "idle"
  /\ p \in pending
  /\ tokens' = removeToken(tokens, p.token, p.type)
  /\ pending' = pending \ {p}
  /\ UNCHANGED <<users, minted, now, pc, calls, last, inflight>>

\* the DELETE that a removeToken call started is rejected; nobody awaits it
removeTokenFails(p) ==
  /\ pc = "idle"
  /\ p \in pending
  /\ pending' = pending \ {p}
  /\ UNCHANGED <<users, tokens, minted, now, pc, calls, last, inflight>>

(***************************************************************************)
(* updateEmail(user, newEmail), on the in-memory account `attrs` of row id *)
(***************************************************************************)
\* the body of updateEmail(user, newEmail) for the account object attrs, when
\* the collaborator call named by fault, if the method comes to make it, fails
updateEmailOfWith(call, id, attrs, newEmail, fault) ==
  LET errors == validateAll(Payload([email |-> newEmail]), updateEmailRules(id), users)
      oldEmail == getEmail(attrs)
      changed == setEmail([attrs EXCEPT !.account_status = config.newAccountState],
                          newEmail)
      validated == runValidationCalls("emailUpdate")
      saved == validated \o <<Step("save", id, U)>>
  IN
  IF fault = "validateAll"
    THEN CollaboratorFailed([ user |-> [id |-> id, attrs |-> attrs],
                              log |-> validated ] @@ call, fault)
  ELSE IF errors # <<>>
    THEN ValidationFailed([ user |-> [id |-> id, attrs |-> attrs],
                            log |-> validated ] @@ call, errors)
  ELSE IF fault = "save"
    THEN CollaboratorFailed([ user |-> [id |-> id, attrs |-> changed],
                              log |-> saved ] @@ call, fault)
  ELSE /\ users' = save(users, id, changed)
       /\ IF fault = "generateToken"
            THEN generateTokenFailed([ user |-> [id |-> id, attrs |-> users'[id]],
                                       log |-> saved ] @@ call)
          ELSE
          \* a DELETE that an earlier verifyEmail started and did not await may
          \* reach the table while this call is suspended in generateToken,
          \* after its lookup and before the event is fired
          /\ \E g \in generateToken(tokens, minted, id, "email", now),
                landed \in {{}} \cup {{p} : p \in pending} :
               /\ tokens' = IF landed = {} THEN g.tokens
                            ELSE LET p == CHOOSE p \in landed : TRUE
                                 IN removeToken(g.tokens, p.token, p.type)
               /\ pending' = pending \ landed
               /\ minted' = g.minted
               /\ Ends([ outcome |-> "returned",
                         user |-> [id |-> id, attrs |-> users'[id]],
                         fired |-> <<Event("email::changed",
                                           [id |-> id, attrs |-> users'[id]],
                                           oldEmail, g.token)>>,
                         log |-> saved \o <<Step("fire", "email::changed", U)>>
                       ] @@ call)

updateEmailOf(call, id, attrs, newEmail) ==
  updateEmailOfWith(call, id, attrs, newEmail, "none")

updateEmailWith(id, newEmail, fault) ==
  /\ Begin
  /\ id \in 1..Len(users)
  /\ updateEmailOfWith([op |-> "updateEmail", uid |-> id, value |-> newEmail],
                       id, users[id], newEmail, fault)

updateEmail(id, newEmail) == updateEmailWith(id, newEmail, "none")

(***************************************************************************)
(* updateProfile(user, payload)                                            *)
(***************************************************************************)
updateProfile(id, payload) ==
  LET call == [op |-> "updateProfile", uid |-> id, payload |-> payload]
      user == users[id]
      newEmail == getEmail(payload)
      oldEmail == getEmail(user)
      merged == merge(user, payload)
  IN
  /\ Begin
  /\ id \in 1..Len(users)
  /\ IF Truthy(getPassword(payload))
       THEN Raises([user |-> [id |-> id, attrs |-> user]] @@ call, "Error",
                   "Changing password is not allowed via updateProfile method. Instead use updatePassword",
                   <<>>)
     ELSE IF newEmail # U /\ oldEmail # newEmail
       THEN updateEmailOf(call, id, setEmail(merged, oldEmail), newEmail)
     ELSE /\ users' = save(users, id, merged)
          /\ Ends([ outcome |-> "returned",
                    user |-> [id |-> id, attrs |-> users'[id]],
                    log |-> <<Step("save", id, U)>> ] @@ call)
          /\ UNCHANGED <<tokens, minted, pending>>

(***************************************************************************)
(* forgotPassword(uid)                                                     *)
(***************************************************************************)
forgotPassword(uid) ==
  LET call == [op |-> "forgotPassword", value |-> uid]
      found == getUserByUids(users, uid)
  IN
  /\ Begin
  /\ IF found = {}
       THEN ValidationFailed([log |-> getUserByUidsCalls(users, uid)] @@ call,
                             <<[field |-> "uid", validation |-> "exists"]>>)
     ELSE \E id \in found :
       \E g \in generateToken(tokens, minted, id, "password", now) :
         /\ tokens' = g.tokens
         /\ minted' = g.minted
         /\ Ends([ outcome |-> "returned", uid |-> id,
                   user |-> [id |-> id, attrs |-> users[id]],
                   fired |-> <<Event("forgot::password",
                                     [id |-> id, attrs |-> users[id]], U, g.token)>>,
                   log |-> <<Step("fire", "forgot::password", U)>>
                 ] @@ call)
         /\ UNCHANGED <<users, pending>>

(***************************************************************************)
(* updatePassword(user, payload)                                           *)
(***************************************************************************)
\* variant: the new password is saved before the old one is verified
updatePasswordSavingFirst(id, payload) ==
  LET call == [op |-> "updatePassword", uid |-> id, payload |-> payload]
      errors == validateAll(payload, updatePasswordRules(TRUE), users)
      user == users[id]
      mismatch == verifyPassword(payload[oldPasswordField], getPassword(user),
                                 oldPasswordField)
  IN
  /\ Begin
  /\ id \in 1..Len(users)
  /\ IF errors # <<>> THEN ValidationFailed(call, errors)
     ELSE /\ users' = save(users, id, setPassword(user, getPassword(payload)))
          /\ IF mismatch # <<>>
               THEN Ends([ outcome |-> "ValidationException", errors |-> mismatch ] @@ call)
               ELSE Ends([ outcome |-> "returned",
                           user |-> [id |-> id, attrs |-> users'[id]],
                           fired |-> <<Event("password::changed",
                                             [id |-> id, attrs |-> users'[id]], U, U)>>
                         ] @@ call)
          /\ UNCHANGED <<tokens, minted, pending>>

updatePassword(id, payload) ==
  LET call == [op |-> "updatePassword", uid |-> id, payload |-> payload]
      errors == validateAll(payload, updatePasswordRules(TRUE), users)
      user == users[id]
      oldPassword == payload[oldPasswordField]
      newPassword == getPassword(payload)
      existingOldPassword == getPassword(user)
      mismatch == verifyPassword(oldPassword, existingOldPassword, oldPasswordField)
      validated == runValidationCalls("passwordUpdate")
      compared == validated \o verifyPasswordCalls(oldPassword, existingOldPassword,
                                                   oldPasswordField)
  IN
  /\ Begin
  /\ id \in 1..Len(users)
  /\ IF errors # <<>> THEN ValidationFailed([log |-> validated] @@ call, errors)
     ELSE IF mismatch # <<>>
       THEN ValidationFailed([ user |-> [id |-> id, attrs |-> user],
                               log |-> compared ] @@ call, mismatch)
     ELSE /\ users' = save(users, id, setPassword(user, newPassword))
          /\ Ends([ outcome |-> "returned",
                    user |-> [id |-> id, attrs |-> users'[id]],
                    fired |-> <<Event("password::changed",
                                      [id |-> id, attrs |-> users'[id]], U, U)>>,
                    log |-> compared \o <<Step("save", id, U),
                                          Step("fire", "password::changed", U)>>
                  ] @@ call)
          /\ UNCHANGED <<tokens, minted, pending>>

(***************************************************************************)
(* updatePasswordByToken(token, payload)                                   *)
(***************************************************************************)
\* updatePasswordByToken(token, payload) when the collaborator call named by
\* fault, if the method comes to make it, fails
updatePasswordByTokenWith(token, payload, fault) ==
  LET call == [op |-> "updatePasswordByToken", token |-> token, payload |-> payload]
      errors == validateAll(payload, updatePasswordRules(FALSE), users)
      rows == getToken(tokens, users, token, "password", now)
      validated == runValidationCalls("passwordUpdate")
  IN
  /\ Begin
  /\ IF fault = "validateAll"
       THEN CollaboratorFailed([log |-> validated] @@ call, fault)
     ELSE IF errors # <<>> THEN ValidationFailed([log |-> validated] @@ call, errors)
     ELSE IF fault = "getToken"
       THEN CollaboratorFailed([log |-> validated] @@ call, fault)
     ELSE IF rows = {} THEN InvalidToken([log |-> validated] @@ call)
     ELSE \E row \in rows :
       LET id == row.user_id
           saved == validated \o <<Step("save", id, U)>>
       IN
       IF fault = "save"
         THEN CollaboratorFailed([log |-> saved, uid |-> id] @@ call, fault)
       ELSE
       /\ users' = save(users, id, setPassword(users[id], getPassword(payload)))
       /\ IF fault = "removeToken"
            THEN /\ Ends([ outcome |-> "CollaboratorError", message |-> fault,
                           failed |-> fault, uid |-> id, log |-> saved ] @@ call)
                 /\ UNCHANGED tokens
            ELSE /\ tokens' = removeToken(tokens, token, "password")
                 /\ Ends([ outcome |-> "returned", uid |-> id,
                           user |-> [id |-> id, attrs |-> users'[id]],
                           fired |-> <<Event("password::recovered",
                                             [id |-> id, attrs |-> users'[id]], U, U)>>,
                           log |-> saved \o <<Step("fire", "password::recovered", U)>>
                         ] @@ call)
       /\ UNCHANGED <<minted, pending>>

updatePasswordByToken(token, payload) == updatePasswordByTokenWith(token, payload, "none")

(***************************************************************************)
(* generateToken(user, type), called on its own                            *)
(***************************************************************************)
generateTokenFor(id, type) ==
  /\ Begin
  /\ id \in 1..Len(users)
  /\ \E g \in generateToken(tokens, minted, id, type, now) :
       /\ tokens' = g.tokens
       /\ minted' = g.minted
       /\ Ends([ op |-> "generateToken", uid |-> id, type |-> type,
                 outcome |-> "returned", result |-> g.token,
                 user |-> [id |-> id, attrs |-> users[id]] ])
  /\ UNCHANGED <<users, pending>>

(***************************************************************************)
(* The environment: the caller goes on after a call, time passes, and a    *)
(* token is revoked by something other than Persona (which never does).    *)
(***************************************************************************)
Return ==
  /\ pc = "done"
  /\ pc' = "idle"
  /\ last' = NoCall
  /\ UNCHANGED <<users, tokens, minted, now, pending, calls, inflight>>

Tick(d) ==
  /\ pc = "idle"
  /\ now + d <= MaxTime
  /\ now' = now + d
  /\ UNCHANGED <<users, tokens, minted, pending, pc, calls, last, inflight>>

revokeToken(r) ==
  /\ pc = "idle"
  /\ r \in tokens
  /\ ~r.is_revoked
  /\ tokens' = (tokens \ {r}) \cup {[r EXCEPT !.is_revoked = TRUE]}
  /\ UNCHANGED <<users, minted, now, pending, pc, calls, last, inflight>>

(***************************************************************************)
(* The inputs of the calls.                                                *)
(***************************************************************************)
EmailValues == {"a@x.io", "b@x.io"}
UsernameValues == {"u1", "u2"}

RegisterPayloads ==
  { Payload([email |-> e, username |-> n, password |-> "p1",
             password_confirmation |-> "p1"]) : e \in EmailValues, n \in UsernameValues }
  \cup
  { Payload([email |-> e, username |-> "u1", password |-> "p1",
             password_confirmation |-> "p1", account_status |-> "inactive"]) :
      e \in EmailValues }
  \cup
  { EmptyPayload,
    Payload([email |-> "a@x.io", username |-> "u1", password |-> "p1",
             password_confirmation |-> "p2"]),
    Payload([email |-> "haha", username |-> "u1", password |-> "p1",
             password_confirmation |-> "p1"]),
    Payload([email |-> "a@x.io", password |-> "p1", password_confirmation |-> "p1"]),
    Payload([username |-> "u1", password |-> "p1", password_confirmation |-> "p1"]),
    Payload([email |-> "a@x.io", username |-> "u1"]) }

VerifyPayloads ==
  { Payload([uid |-> u, password |-> p]) :
      u \in {"a@x.io", "b@x.io", "u1", "u2"}, p \in {"p1", "p2"} }
  \cup { EmptyPayload, Payload([uid |-> "a@x.io"]), Payload([password |-> "p1"]) }

ProfileExtras ==
  { <<U, U, U>>, <<"virk", U, U>>, <<U, "u1", U>>, <<U, "u2", U>>, <<U, U, "inactive">> }

ProfilePayloads ==
  { [EmptyPayload EXCEPT !.email = e, !.firstname = x[1], !.username = x[2],
                         !.account_status = x[3]] :
      e \in {U, "", "haha"} \cup EmailValues, x \in ProfileExtras }
  \cup
  { [EmptyPayload EXCEPT !.password = p, !.email = e, !.firstname = "virk"] :
      p \in {"", "p2"}, e \in {U, "b@x.io"} }

PasswordPayloads ==
  { Payload([old_password |-> o, password |-> "p2", password_confirmation |-> "p2"]) :
      o \in {"p1", "p2"} }
  \cup
  { EmptyPayload,
    Payload([old_password |-> "p1", password |-> "p2"]),
    Payload([password |-> "p2", password_confirmation |-> "p2"]) }

RecoveryPayloads ==
  { EmptyPayload,
    Payload([password |-> "p2"]),
    Payload([password |-> "p2", password_confirmation |-> "p2"]) }

TokenTypes == {"email", "password"}

Next ==
  \/ \E payload \in RegisterPayloads, callback \in Callbacks : register(payload, callback)
  \/ \E payload \in VerifyPayloads, callback \in Callbacks : verify(payload, callback)
  \/ \E token \in 0..minted : verifyEmail(token)
  \/ \E id \in 1..MaxUsers, e \in {U, "", "haha"} \cup EmailValues : updateEmail(id, e)
  \/ \E id \in 1..MaxUsers, payload \in ProfilePayloads : updateProfile(id, payload)
  \/ \E uid \in EmailValues \cup UsernameValues : forgotPassword(uid)
  \/ \E id \in 1..MaxUsers, payload \in PasswordPayloads : updatePassword(id, payload)
  \/ \E token \in 0..minted, payload \in RecoveryPayloads :
       updatePasswordByToken(token, payload)
  \/ \E id \in 1..MaxUsers, type \in TokenTypes : generateTokenFor(id, type)
  \/ \E p \in pending : removeTokenCompletes(p)
  \/ \E r \in tokens : revokeToken(r)
  \/ \E d \in {TokenTTL, TokenTTL + 1} : Tick(d)
  \/ Return

Spec == Init /\ [][Next]_vars

(***************************************************************************)
(* Calls that overlap.  Every await of generateToken and of                *)
(* updatePasswordByToken is a point where another caller's code may run,   *)
(* so each of these calls is split at its awaits: the query, then the      *)
(* writes.  Each of the callers makes one call; the runs in which one      *)
(* caller finishes before the other starts are among the interleavings.    *)
(* The tables start as two registrations, or two registrations and a       *)
(* forgotPassword for the first account, leave them.                       *)
(***************************************************************************)
Callers == 1..NumCallers

IdleCall ==
  [ op |-> "none", at |-> "idle", id |-> 0, type |-> "", token |-> 0,
    password |-> U, result |-> 0, outcome |-> "none",
    created |-> FALSE, changed |-> FALSE ]

Registered(email, username) ==
  create([EmptyPayload EXCEPT !.email = email, !.username = username,
                              !.password = "p1",
                              !.account_status = config.newAccountState])

InitOverlap ==
  /\ users = <<Registered("a@x.io", "u1"), Registered("b@x.io", "u2")>>
  /\ \E recovering \in BOOLEAN :
       /\ tokens = {TokenRow(1, "email", 1, 0), TokenRow(2, "email", 2, 0)}
                   \cup (IF recovering THEN {TokenRow(3, "password", 1, 0)} ELSE {})
       /\ minted = IF recovering THEN 3 ELSE 2
  /\ now = 0
  /\ pending = {}
  /\ pc = "idle"
  /\ calls = 0
  /\ last = NoCall
  /\ inflight = [c \in Callers |-> IdleCall]

Proceeds(c, call) ==
  /\ inflight' = [inflight EXCEPT ![c] = call @@ inflight[c]]
  /\ UNCHANGED <<now, pending, pc, calls, last>>

\* variant: the generator repeats itself
createTokenSameValue(rows, n, userId, type, t) ==
  [ token |-> n + 1,
    tokens |-> rows \cup {TokenRow(n + 1, type, userId, t)},
    minted |-> n ]

\* encrypt(randtoken.generate(16)) and user.tokens().create({ type, token })
createToken(rows, n, userId, type, t) ==
  [ token |-> n + 1,
    tokens |-> rows \cup {TokenRow(n + 1, type, userId, t)},
    minted |-> n + 1 ]

\* generateToken up to the end of `await query.first()`
generateTokenRead(c, id, type) ==
  LET live == addTokenConstraints({ r \in tokens : r.user_id = id }, type, now) IN
  /\ inflight[c].at = "idle"
  /\ id \in 1..Len(users)
  /\ IF live # {}
       THEN \E row \in live :
              Proceeds(c, [ op |-> "generateToken", at |-> "done", id |-> id,
                            type |-> type, result |-> row.token,
                            outcome |-> "returned" ])
       ELSE Proceeds(c, [ op |-> "generateToken", at |-> "create", id |-> id,
                          type |-> type ])
  /\ UNCHANGED <<users, tokens, minted>>

\* generateToken from there to its return
generateTokenCreate(c) ==
  LET call == inflight[c]
      g == createToken(tokens, minted, call.id, call.type, now)
  IN
  /\ call.at = "create"
  /\ tokens' = g.tokens
  /\ minted' = g.minted
  /\ Proceeds(c, [ at |-> "done", result |-> g.token, outcome |-> "returned",
                   created |-> TRUE ])
  /\ UNCHANGED users

\* updatePasswordByToken up to the end of `await this.getToken(token, 'password')`
updatePasswordByTokenRead(c, token, payload) ==
  LET call == [op |-> "updatePasswordByToken", token |-> token,
               password |-> getPassword(payload)]
      errors == validateAll(payload, updatePasswordRules(FALSE), users)
      rows == getToken(tokens, users, token, "password", now)
  IN
  /\ inflight[c].at = "idle"
  /\ IF errors # <<>>
       THEN Proceeds(c, [at |-> "done", outcome |-> "ValidationException"] @@ call)
     ELSE IF rows = {}
       THEN Proceeds(c, [at |-> "done", outcome |-> "InvalidTokenException"] @@ call)
     ELSE \E row \in rows :
            Proceeds(c, [at |-> "save", id |-> row.user_id] @@ call)
  /\ UNCHANGED <<users, tokens, minted>>

\* _setPassword and `await user.save()`
updatePasswordByTokenSave(c) ==
  LET call == inflight[c] IN
  /\ call.at = "save"
  /\ users' = save(users, call.id, setPassword(users[call.id], call.password))
  /\ Proceeds(c, [at |-> "remove", changed |-> TRUE])
  /\ UNCHANGED <<tokens, minted>>

\* `await this.removeToken(token, 'password')`, the event and the return
updatePasswordByTokenRemove(c) ==
  LET call == inflight[c] IN
  /\ call.at = "remove"
  /\ tokens' = removeToken(tokens, call.token, "password")
  /\ Proceeds(c, [at |-> "done", outcome |-> "returned"])
  /\ UNCHANGED <<users, minted>>

OverlapPayloads ==
  RecoveryPayloads \cup
  { [EmptyPayload EXCEPT !.password = "p3", ![passwordConfirmationField] = "p3"] }

NextOverlap ==
  \E c \in Callers :
    \/ \E id \in 1..MaxUsers, type \in TokenTypes : generateTokenRead(c, id, type)
    \/ generateTokenCreate(c)
    \/ \E token \in 0..minted, payload \in OverlapPayloads :
         updatePasswordByTokenRead(c, token, payload)
    \/ updatePasswordByTokenSave(c)
    \/ updatePasswordByTokenRemove(c)

SpecOverlap == InitOverlap /\ [][NextOverlap]_vars

(***************************************************************************)
(* Collaborators that fail.  The tables start as in the overlapping case;  *)
(* in each call of verifyEmail or updatePasswordByToken one of the calls   *)
(* the method makes to the validator or to the store may be rejected.      *)
(***************************************************************************)
Faults == {"none", "validateAll", "getToken", "save", "removeToken"}

WriteFaults == {"none", "validateAll", "create", "save", "generateToken"}

InitFaults ==
  /\ \E both \in BOOLEAN, recovering \in BOOLEAN :
       /\ users = <<Registered("a@x.io", "u1")>>
                  \o (IF both THEN <<Registered("b@x.io", "u2")>> ELSE <<>>)
       /\ tokens = {TokenRow(1, "email", 1, 0)}
                   \cup (IF both THEN {TokenRow(2, "email", 2, 0)} ELSE {})
                   \cup (IF recovering THEN {TokenRow(3, "password", 1, 0)} ELSE {})
       /\ minted = 3
  /\ now = 0
  /\ pending = {}
  /\ pc = "idle"
  /\ calls = 0
  /\ last = NoCall
  /\ inflight = <<>>

NextFaults ==
  \/ \E payload \in RegisterPayloads, callback \in Callbacks, fault \in WriteFaults :
       registerWith(payload, callback, fault)
  \/ \E id \in 1..MaxUsers, e \in {U, "haha"} \cup EmailValues, fault \in WriteFaults :
       updateEmailWith(id, e, fault)
  \/ \E token \in 0..minted, fault \in Faults : verifyEmailWith(token, fault)
  \/ \E token \in 0..minted, payload \in RecoveryPayloads, fault \in Faults :
       updatePasswordByTokenWith(token, payload, fault)
  \/ \E p \in pending : removeTokenCompletes(p)
  \/ \E p \in pending : removeTokenFails(p)
  \/ Return

SpecFaults == InitFaults /\ [][NextFaults]_vars

(***************************************************************************)
(* getToken and removeToken on their own.  The tokens table is any table   *)
(* of at most MaxTokens rows with values of their own: of either type,     *)
(* revoked or not, of an account that exists (1) or does not (2), updated  *)
(* at hour 0 or 1; the clock is at hour 24 or 25, so that a row is less    *)
(* than, exactly or more than 24 hours old.                                *)
(***************************************************************************)
RowShapes ==
  [ type : TokenTypes, user_id : {1, 2}, is_revoked : BOOLEAN, updated_at : {0, 1} ]

InitTokens ==
  /\ users = <<Registered("a@x.io", "u1")>>
  /\ \E present \in SUBSET (1..MaxTokens), shape \in [1..MaxTokens -> RowShapes] :
       tokens = { [ token |-> v, type |-> shape[v].type, user_id |-> shape[v].user_id,
                    is_revoked |-> shape[v].is_revoked,
                    updated_at |-> shape[v].updated_at ] : v \in present }
  /\ minted = MaxTokens
  /\ now \in {TokenTTL, TokenTTL + 1}
  /\ pending = {}
  /\ pc = "idle"
  /\ calls = 0
  /\ last = NoCall
  /\ inflight = <<>>

\* getToken(token, type): `return row && row.getRelated('user') ? row : null`
getTokenCall(value, type) ==
  LET rows == getToken(tokens, users, value, type, now) IN
  /\ Begin
  /\ \E result \in (IF rows = {} THEN {0} ELSE { r.token : r \in rows }) :
       Ends([ op |-> "getToken", token |-> value, type |-> type,
              outcome |-> "returned", result |-> result ])
  /\ UNCHANGED store

\* removeToken(token, type)
removeTokenCall(value, type) ==
  /\ Begin
  /\ tokens' = removeToken(tokens, value, type)
  /\ Ends([ op |-> "removeToken", token |-> value, type |-> type,
            outcome |-> "returned" ])
  /\ UNCHANGED <<users, minted, pending>>

NextTokens ==
  \/ \E value \in 0..MaxTokens, type \in TokenTypes : getTokenCall(value, type)
  \/ \E value \in 0..MaxTokens, type \in TokenTypes : removeTokenCall(value, type)
  \/ Return

SpecTokens == InitTokens /\ [][NextTokens]_vars

(***************************************************************************)
(* getUserByUids on its own.  The users table is any table registrations   *)
(* produce: the emails differ, the usernames differ, and a username is any *)
(* string, the email of somebody else included.                            *)
(***************************************************************************)
LookupNames == UsernameValues \cup EmailValues

Injective(f) == \A i, j \in DOMAIN f : f[i] = f[j] => i = j

InitLookup ==
  /\ \E n \in 0..MaxUsers :
       \E e \in [1..n -> EmailValues], u \in [1..n -> LookupNames] :
         /\ Injective(e)
         /\ Injective(u)
         /\ users = [i \in 1..n |-> Registered(e[i], u[i])]
  /\ tokens = { TokenRow(i, "email", i, 0) : i \in 1..Len(users) }
  /\ minted = Len(users)
  /\ now = 0
  /\ pending = {}
  /\ pc = "idle"
  /\ calls = 0
  /\ last = NoCall
  /\ inflight = <<>>

\* getUserByUids(value)
getUserByUidsCall(value) ==
  LET call == [op |-> "getUserByUids", value |-> value]
      found == getUserByUids(users, value)
  IN
  /\ Begin
  /\ IF found = {}
       THEN ValidationFailed([log |-> getUserByUidsCalls(users, value)] @@ call,
                             <<[field |-> "uid", validation |-> "exists"]>>)
     ELSE \E id \in found :
            /\ Ends([ outcome |-> "returned", uid |-> id,
                      user |-> [id |-> id, attrs |-> users[id]] ] @@ call)
            /\ UNCHANGED store

NextLookup ==
  \/ \E value \in LookupNames : getUserByUidsCall(value)
  \/ Return

SpecLookup == InitLookup /\ [][NextLookup]_vars

(***************************************************************************)
(* registrationRules() for any configuration: up to MaxUids distinct uid   *)
(* fields, either of two fields as the email, as the password and as the   *)
(* table.  The rule string of a field is the join('|') of its pieces; it   *)
(* is kept as the sequence of the pieces.  `registrationRules` above is    *)
(* this object for `config`, as the validator reads it.                    *)
(***************************************************************************)
UidCandidates == {"username", "email", "phone", "handle"}

Configs ==
  { [ uids |-> uids, email |-> e, password |-> p, table |-> t ] :
      uids \in { q \in UNION { [1..n -> UidCandidates] : n \in 0..MaxUids } :
                   Injective(q) },
      e \in {"email", "username"}, p \in {"password", "secret"},
      t \in {"users", "accounts"} }

\* variant: every uid is asked to be an email
uidRuleAlwaysEmail(cfg, uid) ==
  <<"required", "email", "unique:" \o cfg.table \o "," \o uid>>

\* the body of the reduce callback: the rules of one uid
uidRule(cfg, uid) ==
  <<"required">>
  \o (IF uid = cfg.email THEN <<"email">> ELSE <<>>)
  \o <<"unique:" \o cfg.table \o "," \o uid>>

\* uids.reduce((result, uid) => { ...; result[uid] = rules.join('|') }, result)
RECURSIVE reduceUids(_, _, _)
reduceUids(cfg, uids, result) ==
  IF uids = <<>> THEN result
  ELSE reduceUids(cfg, Tail(uids), (Head(uids) :> uidRule(cfg, Head(uids))) @@ result)

registrationRulesOf(cfg) ==
  reduceUids(cfg, cfg.uids, (cfg.password :> <<"required", "confirmed">>))

InitRules ==
  /\ users = <<>>
  /\ tokens = {}
  /\ minted = 0
  /\ now = 0
  /\ pending = {}
  /\ pc = "idle"
  /\ calls = 0
  /\ \E cfg \in Configs : last = [config |-> cfg] @@ NoCall
  /\ inflight = <<>>

\* registrationRules() of the instance constructed with last.config
registrationRulesCall ==
  /\ Begin
  /\ last' = [ op |-> "registrationRules", outcome |-> "returned",
               rules |-> registrationRulesOf(last.config) ] @@ last
  /\ UNCHANGED store

NextRules == registrationRulesCall

SpecRules == InitRules /\ [][NextRules]_vars

(***************************************************************************)
(* Properties.  A call is judged in the state in which it has just ended   *)
(* (pc = "done"), against the tables as they were when it started.         *)
(***************************************************************************)
Ended(op) == pc = "done" /\ last.op = op

StoreUntouched ==
  /\ users = last.usersBefore
  /\ tokens = last.tokensBefore
  /\ pending = last.pendingBefore

TokensOf(rows, id) == { r \in rows : r.user_id = id }

TakenBy(rows, field, v) == { i \in 1..Len(rows) : rows[i][field] = v }

ErrorsOn(errors, field) == { j \in 1..Len(errors) : errors[j].field = field }

\* C1: a register call without callback whose payload passes the registration
\* validation, whatever else the payload carries, returns having appended
\* exactly one account, in newAccountState, with exactly one token, of type
\* "email", and having published exactly one user::created event that carries
\* that account and that token; every other row is as before.
C1_RegisterCreatesAccountTokenEvent ==
  ( /\ Ended("register")
    /\ last.callback = "none"
    /\ validateAll(last.payload, registrationRules, last.usersBefore) = <<>> )
  =>
  LET id == Len(last.usersBefore) + 1 IN
  /\ last.outcome = "returned"
  /\ Len(users) = id
  /\ SubSeq(users, 1, id - 1) = last.usersBefore
  /\ users[id].account_status = config.newAccountState
  /\ tokens \ TokensOf(tokens, id) = last.tokensBefore
  /\ Cardinality(TokensOf(tokens, id)) = 1
  /\ \A r \in TokensOf(tokens, id) :
       /\ r.type = "email"
       /\ last.fired = <<Event("user::created", [id |-> id, attrs |-> users[id]],
                               U, r.token)>>
  /\ last.user = [id |-> id, attrs |-> users[id]]

C1_Witness ==
  /\ Ended("register")
  /\ last.callback = "none"
  /\ last.outcome = "returned"
  /\ last.payload.account_status = "inactive"
  /\ Len(last.usersBefore) = 1

\* C2: a register call whose payload carries, in a uid field, a value that a
\* stored account already holds in that field raises ValidationFailed, the
\* errors on that field are exactly one error and it is `unique`, the tables
\* are as before the call and no event is published.
C2_RegisterTakenUidRejected ==
  Ended("register") =>
    \A k \in 1..Len(config.uids) :
      LET uid == config.uids[k] IN
      ( /\ Truthy(last.payload[uid])
        /\ TakenBy(last.usersBefore, uid, last.payload[uid]) # {} )
      =>
      /\ last.outcome = "ValidationException"
      /\ Cardinality(ErrorsOn(last.errors, uid)) = 1
      /\ \A j \in ErrorsOn(last.errors, uid) : last.errors[j].validation = "unique"
      /\ StoreUntouched
      /\ last.fired = <<>>

C2_Witness ==
  /\ Ended("register")
  /\ last.payload.email = "a@x.io"
  /\ last.payload.username = "u2"
  /\ TakenBy(last.usersBefore, "email", "a@x.io") # {}
  /\ last.errors = <<[field |-> "email", validation |-> "unique"]>>

\* C3: no two stored accounts hold the same value in a configured uid field.
C3_UidsUniqueStoreWide ==
  \A i, j \in 1..Len(users) :
    i # j => \A k \in 1..Len(config.uids) :
               users[i][config.uids[k]] # users[j][config.uids[k]]

\* C4: a verify call with a uid and a password has exactly three outcomes:
\* no account holds the uid in a uid field and it raises the single error
\* {uid, exists}; or the account found is rejected by the hashing facility and
\* it raises the single error {password field, mis_match}; or it returns that
\* account.
C4_VerifyThreeOutcomes ==
  ( /\ Ended("verify")
    /\ Truthy(last.payload.uid)
    /\ Truthy(last.payload.password)
    /\ last.callback # "throws" )
  =>
  LET found == getUserByUids(last.usersBefore, last.payload.uid)
      id == last.user.id
  IN
  \/ /\ found = {}
     /\ last.outcome = "ValidationException"
     /\ last.errors = <<[field |-> "uid", validation |-> "exists"]>>
  \/ /\ id \in found
     /\ ~HashVerify(last.payload.password, last.usersBefore[id].password)
     /\ last.outcome = "ValidationException"
     /\ last.errors = <<[field |-> config.password, validation |-> "mis_match"]>>
  \/ /\ id \in found
     /\ HashVerify(last.payload.password, last.usersBefore[id].password)
     /\ last.outcome = "returned"
     /\ last.user.attrs = last.usersBefore[id]

C4_Witness ==
  /\ Ended("verify")
  /\ last.outcome = "returned"
  /\ last.payload.uid = "u1"
  /\ last.user.attrs.email = "b@x.io"

\* C5: a verify call, whether it returns or raises, publishes no event and
\* leaves every account and token row as it was.
C5_VerifyReadOnly ==
  Ended("verify") => (last.fired = <<>> /\ StoreUntouched)

C5_Witness ==
  /\ Ended("verify")
  /\ last.outcome = "returned"
  /\ last.callback = "none"
  /\ TokensOf(tokens, last.user.id) # {}

\* a stored token with this value that getToken's constraints let through
LiveEmailRows(rows, value, t) ==
  { r \in rows : /\ r.token = value
                 /\ r.type = "email"
                 /\ ~r.is_revoked
                 /\ r.updated_at >= t - TokenTTL }

\* C6: verifyEmail raises InvalidToken, with the message 'The token is invalid
\* or expired', and changes no row whenever every stored token with the given
\* value (if any) was last updated more than 24 hours ago, or is not of type
\* "email", or is revoked.
C6_VerifyEmailInvalidToken ==
  ( /\ Ended("verifyEmail")
    /\ LiveEmailRows(last.tokensBefore, last.token, now) = {} )
  =>
  /\ last.outcome = "InvalidTokenException"
  /\ last.message = "The token is invalid or expired"
  /\ StoreUntouched
  /\ last.fired = <<>>

\* the expired case: an unrevoked "email" token older than 24 hours
C6_Witness ==
  /\ Ended("verifyEmail")
  /\ last.outcome = "InvalidTokenException"
  /\ \E r \in tokens :
       /\ r.token = last.token
       /\ r.type = "email"
       /\ ~r.is_revoked
       /\ r.updated_at < now - TokenTTL

\* the other cases of C6 are reachable too: a revoked token, a token of the
\* wrong type, a value no row has
C6_RevokedReached ==
  /\ Ended("verifyEmail")
  /\ last.outcome = "InvalidTokenException"
  /\ \E r \in tokens : r.token = last.token /\ r.type = "email" /\ r.is_revoked

C6_WrongTypeReached ==
  /\ Ended("verifyEmail")
  /\ last.outcome = "InvalidTokenException"
  /\ \E r \in tokens : r.token = last.token /\ r.type = "password"

\* C7: when verifyEmail returns for an account that was in newAccountState,
\* the stored status is verifiedAccountState and no "email" row with the
\* token's value is left in the table.
C7_VerifyEmailDeletesBeforeReturn ==
  ( /\ Ended("verifyEmail")
    /\ last.outcome = "returned"
    /\ last.usersBefore[last.uid].account_status = config.newAccountState )
  =>
  /\ users[last.uid].account_status = config.verifiedAccountState
  /\ ~ \E r \in tokens : r.token = last.token /\ r.type = "email"

\* C8: verifyEmail with a live "email" token whose account is in a status
\* other than newAccountState returns the account, unchanged; nothing is
\* written, no deletion is started, and the token is still in the table and
\* still redeemable.
C8_VerifyEmailOtherStatusNoOp ==
  ( /\ Ended("verifyEmail")
    /\ LiveEmailRows(last.tokensBefore, last.token, now) # {}
    /\ \A r \in LiveEmailRows(last.tokensBefore, last.token, now) :
         last.usersBefore[r.user_id].account_status # config.newAccountState )
  =>
  /\ last.outcome = "returned"
  /\ last.user = [id |-> last.uid, attrs |-> last.usersBefore[last.uid]]
  /\ \E r \in LiveEmailRows(last.tokensBefore, last.token, now) : r.user_id = last.uid
  /\ StoreUntouched
  /\ last.fired = <<>>
  /\ getToken(tokens, users, last.token, "email", now) # {}

C8_Witness ==
  /\ Ended("verifyEmail")
  /\ last.outcome = "returned"
  /\ users[last.uid].account_status = "inactive"

\* C9: an updateProfile call whose payload has the password field, whatever
\* its value, raises before merging: the stored account and the in-memory
\* account are as before and no event is published.
C9_UpdateProfileRejectsPassword ==
  ( /\ Ended("updateProfile")
    /\ last.payload.password # U )
  =>
  /\ last.outcome = "Error"
  /\ users = last.usersBefore
  /\ last.user.attrs = last.usersBefore[last.uid]
  /\ last.fired = <<>>

\* C10: an updateProfile call without password whose payload carries an email
\* that differs from the account's, is email-shaped and is held by no account
\* returns; the stored account then has the new email, newAccountState, and
\* every other field of the payload; exactly one email::changed event is
\* published and its oldEmail is the account's email before the call; the
\* other accounts are as before; and an account without tokens before the
\* call has exactly one afterwards.
C10_UpdateProfileEmailChange ==
  ( /\ Ended("updateProfile")
    /\ last.payload.password = U
    /\ last.payload.email # U
    /\ last.payload.email # last.usersBefore[last.uid].email
    /\ IsEmail(last.payload.email)
    /\ TakenBy(last.usersBefore, "email", last.payload.email) = {} )
  =>
  LET id == last.uid
      before == last.usersBefore[id]
  IN
  /\ last.outcome = "returned"
  /\ users[id].email = last.payload.email
  /\ users[id].account_status = config.newAccountState
  /\ \A f \in AccountFields \ {"email", "account_status"} :
       users[id][f] = IF last.payload[f] # U THEN last.payload[f] ELSE before[f]
  /\ \A i \in 1..Len(users) : i # id => users[i] = last.usersBefore[i]
  /\ Len(users) = Len(last.usersBefore)
  /\ Len(last.fired) = 1
  /\ last.fired[1].event = "email::changed"
  /\ last.fired[1].oldEmail = before.email
  /\ last.fired[1].user = [id |-> id, attrs |-> users[id]]
  /\ TokensOf(last.tokensBefore, id) = {} => Cardinality(TokensOf(tokens, id)) = 1

C10_Witness ==
  /\ Ended("updateProfile")
  /\ last.outcome = "returned"
  /\ last.payload.firstname = "virk"
  /\ last.payload.email = "b@x.io"
  /\ last.fired # <<>>
  /\ TokensOf(last.tokensBefore, last.uid) = {}

\* C11: an updateProfile call without password whose payload has no email, or
\* the account's current email, returns having saved the merged account with
\* its account_status as before; no token is created or deleted and no event
\* is published.
C11_UpdateProfileSameEmailKeepsStatus ==
  ( /\ Ended("updateProfile")
    /\ last.payload.password = U
    /\ \/ last.payload.email = U
       \/ last.payload.email = last.usersBefore[last.uid].email )
  =>
  LET id == last.uid
      before == last.usersBefore[id]
  IN
  /\ last.outcome = "returned"
  /\ \A f \in AccountFields \ {"account_status"} :
       users[id][f] = IF last.payload[f] # U THEN last.payload[f] ELSE before[f]
  /\ users[id].account_status = before.account_status
  /\ tokens = last.tokensBefore
  /\ pending = last.pendingBefore
  /\ last.fired = <<>>

\* C12: the token carried by an email::changed event is none of the "email"
\* tokens the account had before the call.
C12_EmailChangeMintsNewToken ==
  ( /\ pc = "done"
    /\ last.op \in {"updateEmail", "updateProfile"}
    /\ last.fired # <<>>
    /\ last.fired[1].event = "email::changed" )
  =>
  \A r \in TokensOf(last.tokensBefore, last.uid) :
    r.type = "email" => r.token # last.fired[1].token

\* C13: an updatePassword call with old password, new password and matching
\* confirmation: when the hashing facility rejects the old password against
\* the stored one it raises the single error {old-password field, mis_match},
\* writes nothing and publishes nothing; otherwise it returns, the stored
\* password is the hash of the new one and exactly one password::changed event
\* carrying the account is published.
C13_UpdatePasswordOutcomes ==
  ( /\ Ended("updatePassword")
    /\ Truthy(last.payload[oldPasswordField])
    /\ Truthy(last.payload.password)
    /\ last.payload[passwordConfirmationField] = last.payload.password )
  =>
  LET id == last.uid
      before == last.usersBefore[id]
  IN
  IF ~HashVerify(last.payload[oldPasswordField], before.password)
    THEN /\ last.outcome = "ValidationException"
         /\ last.errors = <<[field |-> oldPasswordField, validation |-> "mis_match"]>>
         /\ StoreUntouched
         /\ last.fired = <<>>
    ELSE /\ last.outcome = "returned"
         /\ HashVerify(last.payload.password, users[id].password)
         /\ last.fired = <<Event("password::changed",
                                 [id |-> id, attrs |-> users[id]], U, U)>>

C13_Witness ==
  /\ Ended("updatePassword")
  /\ last.outcome = "returned"
  /\ users[last.uid].password # last.usersBefore[last.uid].password

C13_MismatchReached ==
  /\ Ended("updatePassword")
  /\ last.errors = <<[field |-> oldPasswordField, validation |-> "mis_match"]>>

\* the rows of an account and type that are live at time t
LiveRowsOf(rows, id, type, t) ==
  { r \in rows : /\ r.user_id = id
                 /\ r.type = type
                 /\ ~r.is_revoked
                 /\ t - r.updated_at <= TokenTTL }

RowsOfType(rows, id, type) == { r \in rows : r.user_id = id /\ r.type = type }

\* the times at which the token a generateToken call has just returned is live
WhileLive ==
  { t \in now..(now + TokenTTL) :
      \E r \in LiveRowsOf(tokens, last.uid, last.type, t) : r.token = last.result }

\* C14 as stated: a generateToken call made while the token of the call that
\* has just ended is live returns the same value and leaves exactly one row of
\* that type for the account; a call for another type or another account
\* returns another value.
C14_RegenerateLeavesOneRow ==
  Ended("generateToken") =>
    \A t \in WhileLive :
      /\ \A g \in generateToken(tokens, minted, last.uid, last.type, t) :
           /\ g.token = last.result
           /\ Cardinality(RowsOfType(g.tokens, last.uid, last.type)) = 1
      /\ \A id \in 1..Len(users), type \in TokenTypes :
           <<id, type>> # <<last.uid, last.type>> =>
             \A g \in generateToken(tokens, minted, id, type, t) :
               g.token # last.result

\* C14 amended: ... returns the same value, adds no row and leaves exactly one
\* live row of that type for the account (rows that have expired or were
\* revoked stay in the table); a call for another type or another account
\* returns another value.
C14_RegenerateLeavesOneLiveRow ==
  Ended("generateToken") =>
    \A t \in WhileLive :
      /\ \A g \in generateToken(tokens, minted, last.uid, last.type, t) :
           /\ g.token = last.result
           /\ g.tokens = tokens
           /\ Cardinality(LiveRowsOf(g.tokens, last.uid, last.type, t)) = 1
      /\ \A id \in 1..Len(users), type \in TokenTypes :
           <<id, type>> # <<last.uid, last.type>> =>
             \A g \in generateToken(tokens, minted, id, type, t) :
               g.token # last.result

\* a call that reused a live token, for an account that has a token of the
\* other type and a neighbour with a token of the same type
C14_Witness ==
  /\ Ended("generateToken")
  /\ tokens = last.tokensBefore
  /\ last.type = "email"
  /\ Len(users) = 2
  /\ \A id \in 1..2 : RowsOfType(tokens, id, "email") # {}

\* C15: every account has at most one live token of each type.
C15_AtMostOneLiveTokenPerType ==
  \A id \in 1..Len(users), type \in TokenTypes :
    Cardinality(LiveRowsOf(tokens, id, type, now)) <= 1

\* an account with a live token of each type and an expired one besides
C15_Witness ==
  \E id \in 1..Len(users) :
    /\ Cardinality(LiveRowsOf(tokens, id, "email", now)) = 1
    /\ Cardinality(LiveRowsOf(tokens, id, "password", now)) = 1
    /\ Cardinality(RowsOfType(tokens, id, "email")) = 2

\* the rows a token value and type select at time t, as an observer of the
\* table sees them
LiveRowsWith(rows, value, type, t) ==
  { r \in rows : /\ r.token = value
                 /\ r.type = type
                 /\ ~r.is_revoked
                 /\ t - r.updated_at <= TokenTTL }

\* C17: an updatePasswordByToken call whose payload has a password and its
\* matching confirmation: when no live "password" row carries the token it
\* raises InvalidToken and writes nothing; otherwise it returns, the owning
\* account stores the hash of the new password, no "password" row with that
\* value is left (a later call with it finds nothing), and exactly one
\* password::recovered event carrying the account is published.
C17_UpdatePasswordByTokenOutcomes ==
  ( /\ Ended("updatePasswordByToken")
    /\ Truthy(last.payload.password)
    /\ last.payload[passwordConfirmationField] = last.payload.password )
  =>
  LET live == LiveRowsWith(last.tokensBefore, last.token, "password", now) IN
  IF live = {}
    THEN /\ last.outcome = "InvalidTokenException"
         /\ StoreUntouched
         /\ last.fired = <<>>
    ELSE /\ last.outcome = "returned"
         /\ \E r \in live : r.user_id = last.uid
         /\ HashVerify(last.payload.password, users[last.uid].password)
         /\ \A i \in 1..Len(users) : i # last.uid => users[i] = last.usersBefore[i]
         /\ { r \in tokens : r.token = last.token /\ r.type = "password" } = {}
         /\ getToken(tokens, users, last.token, "password", now) = {}
         /\ pending = last.pendingBefore
         /\ last.fired = <<Event("password::recovered",
                                 [id |-> last.uid, attrs |-> users[last.uid]], U, U)>>

C17_Witness ==
  /\ Ended("updatePasswordByToken")
  /\ last.outcome = "returned"
  /\ users[last.uid].password = HashMake("p2")
  /\ Cardinality(tokens) < Cardinality(last.tokensBefore)

C17_ExpiredReached ==
  /\ Ended("updatePasswordByToken")
  /\ last.outcome = "InvalidTokenException"
  /\ \E r \in tokens : /\ r.token = last.token
                       /\ r.type = "password"
                       /\ now - r.updated_at > TokenTTL

C17_WrongTypeReached ==
  /\ Ended("updatePasswordByToken")
  /\ last.outcome = "InvalidTokenException"
  /\ LiveRowsWith(tokens, last.token, "email", now) # {}

\* C19: a forgotPassword call: when no account matches the uid it raises the
\* single error {uid, exists}, writes nothing and publishes nothing; otherwise
\* it returns, publishes exactly one forgot::password event carrying the
\* account and a token that is stored as a live "password" row of that
\* account, leaves every account as it was, and an account that had no token
\* has exactly one.
C19_ForgotPasswordOutcomes ==
  Ended("forgotPassword") =>
    LET found == { i \in 1..Len(last.usersBefore) :
                     \E f \in {"username", "email"} :
                       last.usersBefore[i][f] = last.value }
    IN
    IF found = {}
      THEN /\ last.outcome = "ValidationException"
           /\ last.errors = <<[field |-> "uid", validation |-> "exists"]>>
           /\ StoreUntouched
           /\ last.fired = <<>>
      ELSE /\ last.outcome = "returned"
           /\ last.uid \in found
           /\ users = last.usersBefore
           /\ Len(last.fired) = 1
           /\ last.fired[1].event = "forgot::password"
           /\ last.fired[1].user = [id |-> last.uid, attrs |-> users[last.uid]]
           /\ \E r \in LiveRowsOf(tokens, last.uid, "password", now) :
                r.token = last.fired[1].token
           /\ TokensOf(last.tokensBefore, last.uid) = {}
                => Cardinality(TokensOf(tokens, last.uid)) = 1

\* a recovery requested for an account whose registration token was redeemed
C19_Witness ==
  /\ Ended("forgotPassword")
  /\ last.outcome = "returned"
  /\ TokensOf(last.tokensBefore, last.uid) = {}
  /\ Cardinality(TokensOf(tokens, last.uid)) = 1

C19_NotFoundReached ==
  /\ Ended("forgotPassword")
  /\ last.outcome = "ValidationException"
  /\ Len(users) > 0

\* C20: every account_status an operation writes, on a new account or over a
\* different value, is newAccountState or verifiedAccountState.
C20_OnlyConfiguredStatesWritten ==
  pc = "done" =>
    \A i \in 1..Len(users) :
      ( \/ i > Len(last.usersBefore)
        \/ users[i].account_status # last.usersBefore[i].account_status )
      => users[i].account_status \in
           {config.newAccountState, config.verifiedAccountState}

\* the callers whose call of an operation has returned
Returned(op) ==
  { c \in Callers : /\ inflight[c].op = op
                    /\ inflight[c].at = "done"
                    /\ inflight[c].outcome = "returned" }

\* the calls in which the tables before SpecOverlap's start are reached
OverlapStartReached ==
  /\ pc = "idle"
  /\ Len(users) = 2
  /\ \A i \in 1..2 : users[i].account_status = config.newAccountState
  /\ { <<r.user_id, r.type>> : r \in tokens }
       = {<<1, "email">>, <<2, "email">>, <<1, "password">>}

\* the token values that returned updatePasswordByToken calls have redeemed
Redeemed == { inflight[c].token : c \in Returned("updatePasswordByToken") }

\* C16: two generateToken calls for the same account and type that both found
\* no live token and both created one have returned different values, and,
\* until one of them is redeemed, the account has both values as live tokens
\* of that type.
C16_OverlappingGenerateTokenDuplicates ==
  \A c, d \in Returned("generateToken") :
    ( /\ c # d
      /\ inflight[c].created /\ inflight[d].created
      /\ inflight[c].id = inflight[d].id
      /\ inflight[c].type = inflight[d].type )
    =>
    /\ inflight[c].result # inflight[d].result
    /\ { inflight[c].result, inflight[d].result } \ Redeemed
         \subseteq { r.token : r \in LiveRowsOf(tokens, inflight[c].id,
                                                inflight[c].type, now) }

C16_Witness ==
  \E c, d \in Returned("generateToken") :
    /\ c # d
    /\ inflight[c].created /\ inflight[d].created
    /\ inflight[c].id = inflight[d].id
    /\ inflight[c].type = inflight[d].type
    /\ Cardinality(LiveRowsOf(tokens, inflight[c].id, inflight[c].type, now)) = 2

\* C18: for every token value, at most one updatePasswordByToken call made
\* with it has changed the password.
C18_RecoveryTokenSingleUse ==
  \A v \in 1..minted :
    Cardinality({ c \in Callers : /\ inflight[c].op = "updatePasswordByToken"
                                  /\ inflight[c].token = v
                                  /\ inflight[c].changed }) <= 1

\* the positions of a collaborator's calls in the log of the call that ended
StepsOf(name) == { i \in 1..Len(last.log) : last.log[i].step = name }

Operations ==
  { "register", "verify", "verifyEmail", "updateEmail", "updateProfile",
    "updatePassword", "forgotPassword", "updatePasswordByToken" }

\* C23: a call that raised ValidationFailed, InvalidToken or the error of
\* updateProfile has left the accounts and the tokens as they were and has
\* published no event.
C23_RaisedMeansUntouched ==
  ( /\ pc = "done"
    /\ last.op \in Operations
    /\ last.outcome \in {"ValidationException", "InvalidTokenException", "Error"} )
  =>
  /\ users = last.usersBefore
  /\ tokens = last.tokensBefore
  /\ pending = last.pendingBefore
  /\ last.fired = <<>>
  /\ StepsOf("fire") = {}

\* an updateProfile whose payload was merged in memory and whose email was
\* then rejected
C23_Witness ==
  /\ Ended("updateProfile")
  /\ last.outcome = "ValidationException"
  /\ last.payload.firstname # U
  /\ tokens # {}

C23_InvalidTokenReached ==
  /\ pc = "done"
  /\ last.outcome = "InvalidTokenException"
  /\ tokens # {}

C23_NotAllowedReached ==
  /\ Ended("updateProfile")
  /\ last.outcome = "Error"

\* C25: a verify call with a callback: when validation or the lookup of the
\* account fails the callback is not called; otherwise it is called exactly
\* once, with the account found and the entered password, after validateAll
\* and before any Hash.verify; when it raises, Hash.verify is not called and
\* verify raises the callback's error.
C25_VerifyCallbackOrder ==
  ( Ended("verify") /\ last.callback # "none" )
  =>
  LET found == { i \in 1..Len(last.usersBefore) :
                   \E f \in {"username", "email"} :
                     last.usersBefore[i][f] = last.payload.uid }
      valid == Truthy(last.payload.uid) /\ Truthy(last.payload.password)
  IN
  IF ~valid \/ found = {}
    THEN /\ StepsOf("callback") = {}
         /\ last.outcome = "ValidationException"
    ELSE /\ Cardinality(StepsOf("callback")) = 1
         /\ \A i \in StepsOf("callback") :
              /\ last.log[i].a.id \in found
              /\ last.log[i].a.attrs = last.usersBefore[last.log[i].a.id]
              /\ last.log[i].b = last.payload.password
              /\ \A j \in StepsOf("validateAll") : j < i
              /\ \A j \in StepsOf("Hash.verify") : i < j
         /\ last.callback = "throws"
              => StepsOf("Hash.verify") = {} /\ last.outcome = "CallbackError"
         /\ last.callback = "ok"
              => Cardinality(StepsOf("Hash.verify")) = 1

\* the callback raised for an account whose password would have been rejected
C25_Witness ==
  /\ Ended("verify")
  /\ last.callback = "throws"
  /\ last.outcome = "CallbackError"
  /\ ~HashVerify(last.payload.password, last.user.attrs.password)

C25_ComparedAfterCallbackReached ==
  /\ Ended("verify")
  /\ last.callback = "ok"
  /\ last.outcome = "ValidationException"
  /\ StepsOf("Hash.verify") # {}

\* C26: a register call with a callback: when validation fails the callback is
\* not called; otherwise it is called exactly once, with the payload without
\* its confirmation field and with account_status newAccountState, before the
\* account is created; when it raises, no account, token or event is made;
\* when it returns, what it put into the payload is in the account created.
C26_RegisterCallbackOrder ==
  ( Ended("register") /\ last.callback # "none" )
  =>
  IF last.outcome = "ValidationException"
    THEN StepsOf("callback") = {} /\ StoreUntouched
    ELSE /\ Cardinality(StepsOf("callback")) = 1
         /\ \A i \in StepsOf("callback") :
              /\ last.log[i].a = [last.payload EXCEPT
                                    ![passwordConfirmationField] = U,
                                    !.account_status = config.newAccountState]
              /\ \A j \in StepsOf("validateAll") : j < i
              /\ \A j \in StepsOf("create") : i < j
         /\ last.callback = "throws"
              => /\ last.outcome = "CallbackError"
                 /\ StepsOf("create") = {}
                 /\ StoreUntouched
                 /\ last.fired = <<>>
         /\ last.callback = "ok"
              => /\ last.outcome = "returned"
                 /\ Len(users) = Len(last.usersBefore) + 1
                 /\ users[Len(users)].firstname = "virk"

C26_Witness ==
  /\ Ended("register")
  /\ last.callback = "ok"
  /\ last.outcome = "returned"
  /\ Len(users) = 2

C26_CallbackRaisedReached ==
  /\ Ended("register")
  /\ last.callback = "throws"
  /\ last.outcome = "CallbackError"

C26_NotCalledReached ==
  /\ Ended("register")
  /\ last.callback = "throws"
  /\ last.outcome = "ValidationException"

C27_TakenReached ==
  /\ Ended("updateEmail")
  /\ last.errors = <<[field |-> "email", validation |-> "unique"]>>

C27_MissingReached ==
  /\ Ended("updateEmail")
  /\ last.value = U
  /\ last.errors = <<[field |-> "email", validation |-> "required"]>>

\* the actions the documentation of validationMessages lists
DocumentedActions == {"register", "login", "emailUpdate", "passwordUpdate"}

\* C29: every action handed to the validationMessages function is one of the
\* documented four.
C29_DocumentedActionsOnly ==
  pc = "done" =>
    \A i \in StepsOf("validationMessages") : last.log[i].a \in DocumentedActions

\* C24: a call in which a collaborator call it started has failed does not
\* return: it raises that failure.
C24_CollaboratorFailuresRaised ==
  ( pc = "done" /\ last.failed # "" ) => last.outcome = "CollaboratorError"

\* the awaited calls of updatePasswordByToken do raise their failures
C24_AwaitedFailureRaisedReached ==
  /\ Ended("updatePasswordByToken")
  /\ last.failed = "removeToken"
  /\ last.outcome = "CollaboratorError"

\* C21: a getToken call returns, never raises and writes nothing; it returns
\* the token exactly when a stored row has that value and that type, is not
\* revoked, was updated at most 24 hours ago and belongs to an account that
\* exists.
C21_GetTokenExactlyLiveOwned ==
  Ended("getToken") =>
    LET match == { r \in last.tokensBefore :
                     /\ r.token = last.token
                     /\ r.type = last.type
                     /\ ~r.is_revoked
                     /\ now - r.updated_at <= TokenTTL
                     /\ r.user_id \in 1..Len(users) }
    IN
    /\ last.outcome = "returned"
    /\ last.result # 0 <=> match # {}
    /\ last.result # 0 => last.result = last.token
    /\ StoreUntouched

\* a token exactly 24 hours old is returned
C21_Witness ==
  /\ Ended("getToken")
  /\ last.result # 0
  /\ \E r \in tokens : r.token = last.result /\ now - r.updated_at = TokenTTL

C21_NoOwnerReached ==
  /\ Ended("getToken")
  /\ last.result = 0
  /\ \E r \in tokens : /\ r.token = last.token
                       /\ r.type = last.type
                       /\ ~r.is_revoked
                       /\ now - r.updated_at <= TokenTTL
                       /\ r.user_id \notin 1..Len(users)

C21_ExpiredReached ==
  /\ Ended("getToken")
  /\ last.result = 0
  /\ \E r \in tokens : /\ r.token = last.token
                       /\ r.type = last.type
                       /\ ~r.is_revoked
                       /\ now - r.updated_at = TokenTTL + 1
                       /\ r.user_id \in 1..Len(users)

\* C22: a removeToken call returns having deleted the rows with that value and
\* that type, live or not, and no other row; on the table it leaves, the
\* same call deletes nothing.
C22_RemoveTokenExactlyMatching ==
  Ended("removeToken") =>
    /\ last.outcome = "returned"
    /\ tokens = { r \in last.tokensBefore :
                    r.token # last.token \/ r.type # last.type }
    /\ users = last.usersBefore
    /\ removeToken(tokens, last.token, last.type) = tokens

\* a row that was not live is deleted and the other row stays
C22_Witness ==
  /\ Ended("removeToken")
  /\ \E r \in last.tokensBefore \ tokens : r.is_revoked \/ now - r.updated_at > TokenTTL
  /\ tokens # {}

C22_NothingMatchedReached ==
  /\ Ended("removeToken")
  /\ tokens = last.tokensBefore
  /\ \E r \in tokens : r.token = last.token /\ r.type # last.type

\* C28: a getUserByUids call raises the single error {uid, exists} when no
\* account has the value in a uid field; otherwise it returns an account that
\* has it, and that account is the one the value belongs to: no other account
\* has the value in a uid field.
C28_LookupByOwnUidReturnsOwner ==
  Ended("getUserByUids") =>
    LET holders == { i \in 1..Len(users) :
                       \E f \in {"username", "email"} : users[i][f] = last.value }
    IN
    IF holders = {}
      THEN /\ last.outcome = "ValidationException"
           /\ last.errors = <<[field |-> "uid", validation |-> "exists"]>>
      ELSE /\ last.outcome = "returned"
           /\ holders = {last.uid}

C28_FoundByBothReached ==
  /\ Ended("getUserByUids")
  /\ last.outcome = "returned"
  /\ Len(users) = 2
  /\ last.value = users[last.uid].username

Range(f) == { f[i] : i \in DOMAIN f }

RegistrationFields == {config.password} \cup Range(config.uids)

MissingFields(payload) == { f \in RegistrationFields : ~Truthy(payload[f]) }

\* C31: a register call whose payload lacks the password and every uid field
\* raises ValidationFailed and changes nothing; the errors are exactly one
\* "required" error per missing field, and the password error comes before
\* every uid error.
C31_RegisterMissingFieldsErrors ==
  ( /\ Ended("register")
    /\ MissingFields(last.payload) = RegistrationFields )
  =>
  /\ last.outcome = "ValidationException"
  /\ StoreUntouched
  /\ last.fired = <<>>
  /\ Len(last.errors) = Cardinality(RegistrationFields)
  /\ \A f \in RegistrationFields :
       /\ Cardinality(ErrorsOn(last.errors, f)) = 1
       /\ \A j \in ErrorsOn(last.errors, f) : last.errors[j].validation = "required"
  /\ \A j \in ErrorsOn(last.errors, config.password) :
       \A u \in Range(config.uids) :
         \A k \in ErrorsOn(last.errors, u) : j < k

C31_Witness ==
  /\ Ended("register")
  /\ MissingFields(last.payload) = RegistrationFields
  /\ last.outcome = "ValidationException"
  /\ Len(last.errors) = 3
  /\ last.errors[1].field = config.password

(***************************************************************************)
(* A recovery payload the password rules reject: the password is missing   *)
(* or its confirmation differs from it.                                    *)
(***************************************************************************)
InvalidRecoveryPayload(payload) ==
  \/ ~Truthy(payload[config.password])
  \/ payload[passwordConfirmationField] # payload[config.password]

\* C33: updatePasswordByToken with a missing or unconfirmed password raises
\* ValidationFailed whatever the token is (live, expired, revoked or unknown),
\* writes nothing and publishes nothing; a token that was live before the
\* call is still in the table, live, and still selected by getToken.
C33_RecoveryValidatesBeforeToken ==
  ( /\ Ended("updatePasswordByToken")
    /\ InvalidRecoveryPayload(last.payload) )
  =>
  /\ last.outcome = "ValidationException"
  /\ last.errors # <<>>
  /\ \A j \in 1..Len(last.errors) : last.errors[j].field = config.password
  /\ StoreUntouched
  /\ last.fired = <<>>
  /\ StepsOf("save") = {}
  /\ LiveRowsWith(last.tokensBefore, last.token, "password", now)
       \subseteq getToken(tokens, users, last.token, "password", now)

C33_Witness ==
  /\ Ended("updatePasswordByToken")
  /\ InvalidRecoveryPayload(last.payload)
  /\ last.outcome = "ValidationException"
  /\ LiveRowsWith(last.tokensBefore, last.token, "password", now) # {}
  /\ getToken(tokens, users, last.token, "password", now) # {}

\* the same call with a token that is no longer live, or was never issued
C33_DeadTokenReached ==
  /\ Ended("updatePasswordByToken")
  /\ InvalidRecoveryPayload(last.payload)
  /\ last.outcome = "ValidationException"
  /\ LiveRowsWith(last.tokensBefore, last.token, "password", now) = {}
  /\ \E r \in tokens : r.token = last.token /\ r.type = "password"

\* The token values a call handed to its caller or to a listener.
HandedOut ==
  (IF last.op = "generateToken" /\ last.outcome = "returned" THEN {last.result} ELSE {})
  \cup { last.fired[j].token : j \in 1..Len(last.fired) }

\* C34: no operation changes a token row it found: when a call ends, every
\* row of the table before the call is either still there with all its
\* fields, or gone together with every row of its value and type; a row that
\* was not there before carries a value never used before, is not revoked
\* and is stamped with the time of the call; a call that hands out a token
\* that was already there creates no row.  So a row's timestamp is its
\* creation time, and a token handed out again by generateToken stops being
\* live TokenTTL hours after it was created.
C34_TokenRowsNeverModified ==
  pc = "done" =>
    /\ \A r \in last.tokensBefore :
         \/ r \in tokens
         \/ ~ \E q \in tokens : q.token = r.token /\ q.type = r.type
    /\ \A q \in tokens \ last.tokensBefore :
         /\ ~ \E r \in last.tokensBefore : r.token = q.token
         /\ q.updated_at = now
         /\ ~q.is_revoked
    /\ ( /\ last.op \in {"generateToken", "forgotPassword", "updateEmail", "updateProfile"}
         /\ last.outcome = "returned"
         /\ \E r \in last.tokensBefore : r.token \in HandedOut )
       => tokens \subseteq last.tokensBefore

C34_Witness ==
  /\ Ended("generateToken")
  /\ last.outcome = "returned"
  /\ tokens = last.tokensBefore
  /\ \E r \in tokens :
       /\ r.token = last.result
       /\ r.updated_at < now
       /\ now - r.updated_at <= TokenTTL

\* the same through an event: forgotPassword or updateEmail hands out a token
\* minted at an earlier hour
C34_EventReuseReached ==
  /\ pc = "done"
  /\ last.op \in {"forgotPassword", "updateEmail", "updateProfile"}
  /\ last.outcome = "returned"
  /\ \E r \in tokens : r.token \in HandedOut /\ r.updated_at < now

\* C37: when updatePassword or updatePasswordByToken returns, the account
\* differs from its stored value before the call in the password field only
\* and the other accounts are as before.  updatePassword leaves the token
\* table as it was, so a recovery token live before it is still selected by
\* getToken; updatePasswordByToken removes exactly the rows that carry the
\* redeemed value with type "password".
C37_PasswordChangesOnlyPassword ==
  ( /\ pc = "done"
    /\ last.op \in {"updatePassword", "updatePasswordByToken"}
    /\ last.outcome = "returned" )
  =>
  LET id == last.uid IN
  /\ Len(users) = Len(last.usersBefore)
  /\ \A i \in 1..Len(users) : i # id => users[i] = last.usersBefore[i]
  /\ \A f \in AccountFields \ {config.password} :
       users[id][f] = last.usersBefore[id][f]
  /\ HashVerify(last.payload.password, users[id].password)
  /\ pending = last.pendingBefore
  /\ last.op = "updatePassword" =>
       /\ tokens = last.tokensBefore
       /\ \A r \in LiveRowsOf(last.tokensBefore, id, "password", now) :
            r \in getToken(tokens, users, r.token, "password", now)
  /\ last.op = "updatePasswordByToken" =>
       tokens = { r \in last.tokensBefore :
                    ~(r.token = last.token /\ r.type = "password") }

C37_Witness ==
  /\ Ended("updatePasswordByToken")
  /\ last.outcome = "returned"
  /\ users[last.uid].password # last.usersBefore[last.uid].password
  /\ users[last.uid].account_status = config.newAccountState
  /\ TokensOf(tokens, last.uid) # {}
  /\ tokens # last.tokensBefore

\* updatePassword returns while the account holds a live recovery token
C37_UpdatePasswordReached ==
  /\ Ended("updatePassword")
  /\ last.outcome = "returned"
  /\ users[last.uid].password # last.usersBefore[last.uid].password
  /\ LiveRowsOf(tokens, last.uid, "password", now) # {}

\* C38: when updateProfile raises ValidationFailed for its new email, the
\* account object the caller passed in equals the stored account before the
\* call in every field, and saving that object would leave the stored account
\* as it was before the call.
C38_RejectedProfileLeavesObjectClean ==
  ( /\ Ended("updateProfile")
    /\ last.outcome = "ValidationException" )
  =>
  /\ last.user.attrs = last.usersBefore[last.uid]
  /\ save(users, last.uid, last.user.attrs)[last.uid] = last.usersBefore[last.uid]

\* what does hold: the email of the object is reset and nothing is stored
C38_RejectedProfileKeepsEmailAndStore ==
  ( /\ Ended("updateProfile")
    /\ last.outcome = "ValidationException" )
  =>
  /\ getEmail(last.user.attrs) = getEmail(last.usersBefore[last.uid])
  /\ StoreUntouched

\* verifyEmail(value) would move an account to verifiedAccountState: a live
\* "email" row carries the value and its account is in newAccountState.
WouldVerify(value) ==
  \E row \in getToken(tokens, users, value, "email", now) :
    inNewAccountState(users[row.user_id])

\* C36: once updateEmail or updateProfile has changed an account's email, no
\* "email" token the account held before the change can move it to
\* verifiedAccountState: verifyEmail verifies the account only with a token
\* created after its current email was set.
C36_EarlierTokenCannotVerify ==
  ( /\ pc = "done"
    /\ last.op \in {"updateEmail", "updateProfile"}
    /\ last.outcome = "returned"
    /\ getEmail(users[last.uid]) # getEmail(last.usersBefore[last.uid]) )
  =>
  \A r \in TokensOf(last.tokensBefore, last.uid) :
    r.type = "email" => ~WouldVerify(r.token)

\* C32: when generateToken fails after register has created the account,
\* register raises the failure, the new account is stored in newAccountState,
\* no token row exists for it and no event is published; when generateToken
\* fails after updateEmail has saved the account, updateEmail raises the
\* failure, the stored account keeps the new email and newAccountState, the
\* token table is as before and no event is published.
C32_NoRollbackAfterTokenFailure ==
  ( /\ pc = "done"
    /\ last.op \in {"register", "updateEmail"}
    /\ last.failed = "generateToken" )
  =>
  /\ last.outcome = "CollaboratorError"
  /\ last.fired = <<>>
  /\ StepsOf("fire") = {}
  /\ tokens = last.tokensBefore
  /\ pending = last.pendingBefore
  /\ last.op = "register" =>
       /\ Len(users) = Len(last.usersBefore) + 1
       /\ SubSeq(users, 1, Len(last.usersBefore)) = last.usersBefore
       /\ users[Len(users)].account_status = config.newAccountState
       /\ \A u \in Range(config.uids) : users[Len(users)][u] = last.payload[u]
       /\ HashVerify(last.payload.password, users[Len(users)].password)
       /\ TokensOf(tokens, Len(users)) = {}
       /\ StepsOf("create") # {}
  /\ last.op = "updateEmail" =>
       /\ Len(users) = Len(last.usersBefore)
       /\ \A i \in 1..Len(users) : i # last.uid => users[i] = last.usersBefore[i]
       /\ getEmail(users[last.uid]) = last.value
       /\ users[last.uid].account_status = config.newAccountState
       /\ StepsOf("save") # {}

C32_Witness ==
  /\ Ended("register")
  /\ last.failed = "generateToken"
  /\ last.outcome = "CollaboratorError"
  /\ Len(users) = Len(last.usersBefore) + 1
  /\ TokensOf(tokens, Len(users)) = {}
  /\ last.fired = <<>>

\* the same for updateEmail: the address is changed, the account had been
\* verified, and the failure leaves it pending with the new address
C32_UpdateEmailReached ==
  /\ Ended("updateEmail")
  /\ last.failed = "generateToken"
  /\ last.outcome = "CollaboratorError"
  /\ getEmail(users[last.uid]) # getEmail(last.usersBefore[last.uid])
  /\ last.usersBefore[last.uid].account_status = config.verifiedAccountState
  /\ users[last.uid].account_status = config.newAccountState
  /\ last.fired = <<>>

\* the kind of token each event carries
EventTokenType ==
  [e \in {"user::created", "email::changed", "forgot::password"} |->
     IF e = "forgot::password" THEN "password" ELSE "email"]

\* C35: when a call has published user::created, email::changed or
\* forgot::password, the token of the event is the value of a live row of the
\* event's type that belongs to the account of the event, and the account of
\* the event is the stored account, written before the event was fired.
C35_PublishedTokenIsStoredAndLive ==
  pc = "done" =>
    \A j \in 1..Len(last.fired) :
      LET ev == last.fired[j] IN
      ev.event \in DOMAIN EventTokenType =>
        /\ \E r \in LiveRowsOf(tokens, ev.user.id, EventTokenType[ev.event], now) :
             r.token = ev.token
        /\ ev.user.id \in 1..Len(users)
        /\ users[ev.user.id] = ev.user.attrs
        /\ ev.event = "user::created" =>
             /\ Len(users) = Len(last.usersBefore) + 1
             /\ \E c \in StepsOf("create") : \A f \in StepsOf("fire") : c < f
        /\ ev.event = "email::changed" =>
             /\ ev.oldEmail = getEmail(last.usersBefore[ev.user.id])
             /\ users[ev.user.id].account_status = config.newAccountState
             /\ \E c \in StepsOf("save") : \A f \in StepsOf("fire") : c < f

\* what holds for every call made while no removal is in flight
C35_HoldsWithNoRemovalInFlight ==
  (pc = "done" /\ last.pendingBefore = {}) => C35_PublishedTokenIsStoredAndLive

====
